---------------------------- MODULE Spec2Model ----------------------------
(***************************************************************************)
(* Model of the in-memory key-value store with prefix subscriptions        *)
(* (package service, KVStoreService): the store, the subscriber registry   *)
(* guarded by a sync.RWMutex, the fan-out of change events into bounded    *)
(* per-subscriber channels, and the per-subscription delivery loop.        *)
(*                                                                         *)
(* Strings that the code inspects (keys, patterns) are sequences of        *)
(* one-character strings, so that strings.HasPrefix is computed.  Values   *)
(* are opaque to the code and stay TLA+ strings.                           *)
(***************************************************************************)
EXTENDS Integers, Sequences, FiniteSets, TLC

(***************************************************************************)
(* Bounds of the model.                                                    *)
(***************************************************************************)
\* number of goroutines that call Set (each may call it repeatedly)
NumWriters == 2
\* capacity of a subscriber's events channel; the code makes it with 100
\* (part_000:112), the model scales it down
QueueCap == 2

\* Set calls with a non-empty key over a run: one more than a channel holds
MaxSets == QueueCap + 1
Writers == 1..NumWriters
\* the Subscribe calls that are accepted over a run, each one stream and one
\* *subscriber
Subs == {1, 2}

(***************************************************************************)
(* Inputs.                                                                 *)
(***************************************************************************)
EmptyStr == <<>>
UserColon == <<"u", "s", "e", "r", ":">>
User1 == UserColon \o <<"1">>
User123 == UserColon \o <<"1", "2", "3">>
User999 == UserColon \o <<"9", "9", "9">>

Keys == {EmptyStr, User123, User999}
Patterns == {EmptyStr, UserColon, User1}
Values == {"v", "Alice"}

\* gRPC status codes and errors the handlers return
OK == "OK"
InvalidArgument == "InvalidArgument"
SendError == "SendError"

None == "none"

VARIABLES
    store,          \* s.store: the sync.Map, a function key -> value
    subscribers,    \* s.subscribers: map pattern -> list of *subscriber
    mu,             \* s.mu: [w |-> Lock holder or 0, readers |-> RLock holders]
    wr,             \* per Set goroutine: position in Set/notifySubscribers
    sb,             \* per Subscribe call: position, the subscriber, its channel
    resp,           \* the response the last handler to return has returned
    nSets,          \* history: number of writes committed to the store
    completed,      \* history: ids of the Set calls that returned success
    lastCommitted,  \* history: per key, the value of the Set that stored last
    lastCompleted   \* history: per key, the value of the Set that returned last

vars == <<store, subscribers, mu, wr, sb, resp, nSets, completed, lastCommitted, lastCompleted>>

(***************************************************************************)
(* Helpers.                                                                *)
(***************************************************************************)
Range(f) == {f[i] : i \in DOMAIN f}

\* HasPrefix with its arguments swapped
HasPrefixSwapped(s, prefix) ==
    /\ Len(prefix) >= Len(s)
    /\ SubSeq(prefix, 1, Len(s)) = s

\* a match of the whole key instead of its prefix
HasPrefixWholeKey(s, prefix) == s = prefix

\* strings.HasPrefix(s, prefix): len(s) >= len(prefix) && s[:len(prefix)] == prefix
HasPrefix(s, prefix) ==
    /\ Len(s) >= Len(prefix)
    /\ SubSeq(s, 1, Len(prefix)) = prefix

\* a store with room for one entry: a write evicts the other keys
MapStoreSingleEntry(m, key, value) == [k \in {key} |-> value]

\* a store that keeps the value a key already has (LoadOrStore for Store)
MapStoreKeepFirst(m, key, value) ==
    [k \in DOMAIN m \cup {key} |-> IF k \in DOMAIN m THEN m[k] ELSE value]

\* sync.Map.Store(key, value)
MapStore(m, key, value) ==
    [k \in DOMAIN m \cup {key} |-> IF k = key THEN value ELSE m[k]]

\* the ChangeEvent Set builds; id stands for the identity of the pointer
\* (the Timestamp field is wall-clock time and is read by nothing modelled)
ChangeEvent(id, key, value) ==
    [changeType |-> "SET", key |-> key, value |-> value, id |-> id]

NoEvent == [changeType |-> None, key |-> EmptyStr, value |-> "", id |-> 0]

\* all orders in which a range over a set of map keys can visit them
RECURSIVE Orders(_)
Orders(S) ==
    IF S = {} THEN {<<>>}
    ELSE UNION {{<<p>> \o rest : rest \in Orders(S \ {p})} : p \in S}

\* the subscribers notifySubscribers visits, in visiting order, when the
\* range over the map yields the patterns in this order
RECURSIVE Targets(_, _, _)
Targets(reg, key, order) ==
    IF order = <<>> THEN <<>>
    ELSE (IF HasPrefix(key, Head(order)) THEN reg[Head(order)] ELSE <<>>)
         \o Targets(reg, key, Tail(order))

\* position of sub in the list subs, 0 when it is absent
IndexOf(subs, sub) ==
    IF \E i \in 1..Len(subs) : subs[i] = sub
    THEN CHOOSE i \in 1..Len(subs) : subs[i] = sub /\ \A j \in 1..(i - 1) : subs[j] # sub
    ELSE 0

\* s.subscribers[pattern], nil (empty) when the pattern has no entry
Lookup(reg, pattern) == IF pattern \in DOMAIN reg THEN reg[pattern] ELSE <<>>

\* a registration that assigns a new list instead of appending
AddSubscriberReplace(reg, pattern, sub) ==
    [p \in DOMAIN reg \cup {pattern} |-> IF p = pattern THEN <<sub>> ELSE reg[p]]

\* the registry after s.subscribers[pattern] = append(s.subscribers[pattern], sub)
AddSubscriber(reg, pattern, sub) ==
    [p \in DOMAIN reg \cup {pattern} |->
        IF p = pattern THEN Append(Lookup(reg, pattern), sub) ELSE reg[p]]

\* a removeSubscriber whose comparison never matches
RemoveSubscriberNoMatch(reg, pattern, sub) == reg

\* a removeSubscriber that matches by pattern and drops the whole list
RemoveSubscriberByPattern(reg, pattern, sub) ==
    [p \in DOMAIN reg \ {pattern} |-> reg[p]]

\* a removeSubscriber without the cleanup of lines 183-186
RemoveSubscriberKeepEmpty(reg, pattern, sub) ==
    LET subs == Lookup(reg, pattern)
        i == IndexOf(subs, sub)
        spliced == IF i = 0 THEN subs
                   ELSE SubSeq(subs, 1, i - 1) \o SubSeq(subs, i + 1, Len(subs))
    IN  [p \in DOMAIN reg \cup {pattern} |-> IF p = pattern THEN spliced ELSE reg[p]]

\* a removeSubscriber that splices at an index left at zero when the search
\* finds nothing: it takes out the head of the list
RemoveSubscriberDefaultIndex(reg, pattern, sub) ==
    LET subs == Lookup(reg, pattern)
        i == IF IndexOf(subs, sub) = 0 /\ subs # <<>> THEN 1 ELSE IndexOf(subs, sub)
        spliced == IF i = 0 THEN subs
                   ELSE SubSeq(subs, 1, i - 1) \o SubSeq(subs, i + 1, Len(subs))
    IN  IF Len(spliced) = 0
        THEN [p \in DOMAIN reg \ {pattern} |-> reg[p]]
        ELSE [p \in DOMAIN reg \cup {pattern} |-> IF p = pattern THEN spliced ELSE reg[p]]

\* the registry after the body of removeSubscriber(pattern, sub)
RemoveSubscriber(reg, pattern, sub) ==
    LET subs == Lookup(reg, pattern)
        i == IndexOf(subs, sub)
        spliced == IF i = 0 THEN subs
                   ELSE SubSeq(subs, 1, i - 1) \o SubSeq(subs, i + 1, Len(subs))
    IN  IF Len(spliced) = 0
        THEN [p \in DOMAIN reg \ {pattern} |-> reg[p]]
        ELSE [p \in DOMAIN reg \cup {pattern} |-> IF p = pattern THEN spliced ELSE reg[p]]

\* the subscribers registered under any pattern
Registered(reg) == UNION {Range(reg[p]) : p \in DOMAIN reg}

(***************************************************************************)
(* Initial state: NewKVStoreService().                                     *)
(***************************************************************************)
\* a goroutine that is not inside Set
IdleWriter ==
    [pc |-> "idle", event |-> NoEvent, todo |-> <<>>, snap |-> {}, notifiedCount |-> 0]

\* a Subscribe call not yet made; tried, dropped and sent are the history of
\* the subscriber's channel: the events whose enqueue was attempted, the ids
\* of those dropped on a full channel, the events handed to stream.Send;
\* before is the history of its registration: the ids of the Set calls whose
\* notifySubscribers had returned when it was registered
IdleSub ==
    [pc |-> "idle", pattern |-> EmptyStr, events |-> <<>>, closed |-> FALSE,
     ctxDone |-> FALSE, err |-> None,
     tried |-> <<>>, dropped |-> {}, sent |-> <<>>, before |-> {}]

\* a Subscribe call that has returned: nothing refers to its subscriber
ReturnedSub == [IdleSub EXCEPT !.pc = "returned", !.closed = TRUE]

\* a response: the handler, the key asked for (Get), the fields of the reply
\* and the status code or error returned with it
NoResp == [op |-> None, key |-> EmptyStr, value |-> "", found |-> FALSE, code |-> None]

Init ==
    /\ store = <<>>
    /\ subscribers = <<>>
    /\ mu = [w |-> 0, readers |-> {}]
    /\ wr = [w \in Writers |-> IdleWriter]
    /\ sb = [s \in Subs |-> IdleSub]
    /\ resp = NoResp
    /\ nSets = 0
    /\ completed = {}
    /\ lastCommitted = <<>>
    /\ lastCompleted = <<>>

(***************************************************************************)
(* Get (lines 38-66).                                                      *)
(***************************************************************************)
\* a Get that reports a miss as an error
GetResponseMissIsError(m, key) ==
    IF key = EmptyStr
    THEN [op |-> "Get", key |-> key, value |-> "", found |-> FALSE, code |-> InvalidArgument]
    ELSE IF key \notin DOMAIN m
    THEN [op |-> "Get", key |-> key, value |-> "", found |-> FALSE, code |-> "NotFound"]
    ELSE [op |-> "Get", key |-> key, value |-> m[key], found |-> TRUE, code |-> OK]

\* the response Get builds for key (the value.(string) assertion cannot fail:
\* Set only stores req.Value, a string)
GetResponse(m, key) ==
    IF key = EmptyStr
    THEN [op |-> "Get", key |-> key, value |-> "", found |-> FALSE, code |-> InvalidArgument]
    ELSE IF key \notin DOMAIN m
    THEN [op |-> "Get", key |-> key, value |-> "", found |-> FALSE, code |-> OK]
    ELSE [op |-> "Get", key |-> key, value |-> m[key], found |-> TRUE, code |-> OK]

Get(key) ==
    /\ resp' = GetResponse(store, key)
    /\ UNCHANGED <<store, subscribers, mu, wr, sb, nSets, completed, lastCommitted, lastCompleted>>

(***************************************************************************)
(* Set: validation, store, event construction (lines 69-86).               *)
(***************************************************************************)
SetError == [op |-> "Set", key |-> EmptyStr, value |-> "", found |-> FALSE, code |-> InvalidArgument]
SetSuccess == [op |-> "Set", key |-> EmptyStr, value |-> "", found |-> FALSE, code |-> OK]

\* a Set that builds and publishes its event without the Store of line 78
SetStoreSkipped(w, key, value) ==
    /\ wr[w].pc = "idle"
    /\ \A w2 \in Writers : w2 < w => wr[w2].pc # "idle"
    /\ IF key = EmptyStr
       THEN /\ resp' = SetError
            /\ UNCHANGED <<nSets, wr, lastCommitted>>
       ELSE /\ nSets < MaxSets
            /\ nSets' = nSets + 1
            /\ lastCommitted' = (key :> value) @@ lastCommitted
            /\ wr' = [wr EXCEPT ![w] =
                        [IdleWriter EXCEPT !.pc = "rlock",
                                           !.event = ChangeEvent(nSets + 1, key, value)]]
            /\ UNCHANGED resp
    /\ UNCHANGED <<store, subscribers, mu, sb, completed, lastCompleted>>

\* a Set without the check of lines 70-73
SetUnchecked(w, key, value) ==
    /\ wr[w].pc = "idle"
    /\ \A w2 \in Writers : w2 < w => wr[w2].pc # "idle"
    /\ nSets < MaxSets
    /\ store' = MapStore(store, key, value)
    /\ nSets' = nSets + 1
    /\ lastCommitted' = (key :> value) @@ lastCommitted
    /\ wr' = [wr EXCEPT ![w] =
                [IdleWriter EXCEPT !.pc = "rlock",
                                   !.event = ChangeEvent(nSets + 1, key, value)]]
    /\ UNCHANGED <<resp, subscribers, mu, sb, completed, lastCompleted>>

\* goroutines are anonymous: a call is served by the lowest idle one
Set(w, key, value) ==
    /\ wr[w].pc = "idle"
    /\ \A w2 \in Writers : w2 < w => wr[w2].pc # "idle"
    /\ IF key = EmptyStr
       THEN /\ resp' = SetError
            /\ UNCHANGED <<store, nSets, wr, lastCommitted>>
       ELSE /\ nSets < MaxSets
            /\ store' = MapStore(store, key, value)
            /\ nSets' = nSets + 1
            /\ lastCommitted' = (key :> value) @@ lastCommitted
            /\ wr' = [wr EXCEPT ![w] =
                        [IdleWriter EXCEPT !.pc = "rlock",
                                           !.event = ChangeEvent(nSets + 1, key, value)]]
            /\ UNCHANGED resp
    /\ UNCHANGED <<subscribers, mu, sb, completed, lastCompleted>>

(***************************************************************************)
(* notifySubscribers (lines 147-168), called from Set at line 89.          *)
(***************************************************************************)
\* s.mu.RLock(): blocks while a goroutine holds or waits for the write lock
NotifyRLock(w) ==
    /\ wr[w].pc = "rlock"
    /\ mu.w = 0
    /\ \E order \in Orders(DOMAIN subscribers) :
         wr' = [wr EXCEPT ![w].pc = "fanout",
                          ![w].todo = Targets(subscribers, wr[w].event.key, order),
                          ![w].snap = Registered(subscribers)]
    /\ mu' = [mu EXCEPT !.readers = @ \cup {w}]
    /\ UNCHANGED <<store, subscribers, sb, resp, nSets, completed, lastCommitted, lastCompleted>>

\* a send that makes room by dropping the oldest event
TrySendDropOldest(ch, e) ==
    IF Len(ch) < QueueCap THEN Append(ch, e) ELSE Append(Tail(ch), e)

\* a send into a channel that grows
TrySendUnbounded(ch, e) == Append(ch, e)

\* the channel after select { case ch <- e: default: } on a channel made
\* with capacity QueueCap
TrySend(ch, e) == IF Len(ch) < QueueCap THEN Append(ch, e) ELSE ch

\* a fan-out with a plain send, which waits for room in the channel
NotifyEnqueueBlocking(w) ==
    /\ wr[w].pc = "fanout"
    /\ wr[w].todo # <<>>
    /\ LET s == Head(wr[w].todo)
           e == wr[w].event
       IN  /\ Len(sb[s].events) < QueueCap
           /\ sb' = [sb EXCEPT ![s].events = Append(@, e),
                               ![s].tried = Append(@, e)]
           /\ wr' = [wr EXCEPT ![w].todo = Tail(@),
                               ![w].notifiedCount = @ + 1]
    /\ UNCHANGED <<store, subscribers, mu, resp, nSets, completed, lastCommitted, lastCompleted>>

\* a fan-out that returns at the first full channel
NotifyEnqueueStopOnFull(w) ==
    /\ wr[w].pc = "fanout"
    /\ wr[w].todo # <<>>
    /\ LET s == Head(wr[w].todo)
           e == wr[w].event
           ch == TrySend(sb[s].events, e)
       IN  IF ch # sb[s].events
           THEN /\ sb' = [sb EXCEPT ![s].events = ch,
                                    ![s].tried = Append(@, e)]
                /\ wr' = [wr EXCEPT ![w].todo = Tail(@),
                                    ![w].notifiedCount = @ + 1]
           ELSE /\ sb' = [sb EXCEPT ![s].tried = Append(@, e),
                                    ![s].dropped = @ \cup {e.id}]
                /\ wr' = [wr EXCEPT ![w].todo = <<>>]
    /\ UNCHANGED <<store, subscribers, mu, resp, nSets, completed, lastCommitted, lastCompleted>>

\* one iteration of the inner loop (lines 154-161)
NotifyEnqueue(w) ==
    /\ wr[w].pc = "fanout"
    /\ wr[w].todo # <<>>
    /\ LET s == Head(wr[w].todo)
           e == wr[w].event
           ch == TrySend(sb[s].events, e)
       IN  IF sb[s].closed
           THEN \* send on a closed channel panics
                /\ wr' = [wr EXCEPT ![w].pc = "panic"]
                /\ UNCHANGED sb
           ELSE IF ch # sb[s].events
           THEN /\ sb' = [sb EXCEPT ![s].events = ch,
                                    ![s].tried = Append(@, e)]
                /\ wr' = [wr EXCEPT ![w].todo = Tail(@),
                                    ![w].notifiedCount = @ + 1]
           ELSE /\ sb' = [sb EXCEPT ![s].tried = Append(@, e),
                                    ![s].dropped = @ \cup {e.id}]
                /\ wr' = [wr EXCEPT ![w].todo = Tail(@)]
    /\ UNCHANGED <<store, subscribers, mu, resp, nSets, completed, lastCommitted, lastCompleted>>

\* the end of notifySubscribers (lines 165-168): the deferred s.mu.RUnlock()
\* of line 149 releases the read lock, and the call at line 89 returns
NotifyRUnlock(w) ==
    /\ wr[w].pc = "fanout"
    /\ wr[w].todo = <<>>
    /\ mu' = [mu EXCEPT !.readers = @ \ {w}]
    /\ wr' = [wr EXCEPT ![w].pc = "returning"]
    /\ UNCHANGED <<store, subscribers, sb, resp, nSets, completed, lastCommitted, lastCompleted>>

\* Set logs and returns Success (lines 91-96)
SetReturn(w) ==
    /\ wr[w].pc = "returning"
    /\ completed' = completed \cup {wr[w].event.id}
    /\ lastCompleted' = (wr[w].event.key :> wr[w].event.value) @@ lastCompleted
    /\ wr' = [wr EXCEPT ![w] = IdleWriter]
    /\ resp' = SetSuccess
    /\ UNCHANGED <<store, subscribers, mu, sb, nSets, lastCommitted>>

(***************************************************************************)
(* Subscribe (lines 100-144).                                              *)
(***************************************************************************)
SubscribeReturn(err) == [op |-> "Subscribe", key |-> EmptyStr, value |-> "", found |-> FALSE, code |-> err]

\* validation, construction of the subscriber and the call of s.mu.Lock()
\* (lines 101-116): the caller takes the writer mutex and announces itself,
\* which blocks later RLock calls; the n-th call is served by slot n
Subscribe(s, pattern) ==
    /\ sb[s].pc = "idle"
    /\ \A s2 \in Subs : s2 < s => sb[s2].pc # "idle"
    /\ IF pattern = EmptyStr
       THEN /\ resp' = SubscribeReturn(InvalidArgument)
            /\ UNCHANGED <<mu, sb>>
       ELSE /\ mu.w = 0
            /\ mu' = [mu EXCEPT !.w = s]
            /\ sb' = [sb EXCEPT ![s].pc = "registering", ![s].pattern = pattern]
            /\ UNCHANGED resp
    /\ UNCHANGED <<store, subscribers, wr, nSets, completed, lastCommitted, lastCompleted>>

\* the ids of the Set calls whose notifySubscribers has returned: those of
\* the calls that have returned and of the calls between line 89 and line 96
FannedOut ==
    completed \cup {wr[w].event.id : w \in {x \in Writers : wr[x].pc = "returning"}}

\* a registration that does not wait for the fan-outs to leave (the registry
\* written under the read lock)
RegisterNoWait(s) ==
    /\ sb[s].pc = "registering"
    /\ mu.w = s
    /\ subscribers' = AddSubscriber(subscribers, sb[s].pattern, s)
    /\ mu' = [mu EXCEPT !.w = 0]
    /\ sb' = [sb EXCEPT ![s].pc = "loop", ![s].before = FannedOut]
    /\ UNCHANGED <<store, wr, resp, nSets, completed, lastCommitted, lastCompleted>>

\* a registration that replays the stored value of a matching key as an event
RegisterWithReplay(s) ==
    /\ sb[s].pc = "registering"
    /\ mu.w = s
    /\ mu.readers = {}
    /\ subscribers' = AddSubscriber(subscribers, sb[s].pattern, s)
    /\ mu' = [mu EXCEPT !.w = 0]
    /\ LET held == {k \in DOMAIN store : HasPrefix(k, sb[s].pattern)}
       IN  sb' = [sb EXCEPT ![s].pc = "loop", ![s].before = FannedOut,
                            ![s].events =
                                IF held = {} THEN <<>>
                                ELSE LET k == CHOOSE k \in held : TRUE
                                     IN  <<ChangeEvent(nSets, k, store[k])>>]
    /\ UNCHANGED <<store, wr, resp, nSets, completed, lastCommitted, lastCompleted>>

\* the critical section of lines 116-119, entered once the readers have left
Register(s) ==
    /\ sb[s].pc = "registering"
    /\ mu.w = s
    /\ mu.readers = {}
    /\ subscribers' = AddSubscriber(subscribers, sb[s].pattern, s)
    /\ mu' = [mu EXCEPT !.w = 0]
    /\ sb' = [sb EXCEPT ![s].pc = "loop", ![s].before = FannedOut]
    /\ UNCHANGED <<store, wr, resp, nSets, completed, lastCommitted, lastCompleted>>

\* a receive that takes the event enqueued last
LoopReceiveLifo(s) ==
    /\ sb[s].pc = "loop"
    /\ sb[s].events # <<>>
    /\ sb' = [sb EXCEPT ![s].pc = "sending",
                        ![s].events = SubSeq(@, 1, Len(@) - 1),
                        ![s].sent = Append(@, sb[s].events[Len(sb[s].events)])]
    /\ UNCHANGED <<store, subscribers, mu, wr, resp, nSets, completed, lastCommitted, lastCompleted>>

\* select case event := <-sub.events, then the call of stream.Send(event)
LoopReceive(s) ==
    /\ sb[s].pc = "loop"
    /\ sb[s].events # <<>>
    /\ sb' = [sb EXCEPT ![s].pc = "sending",
                        ![s].events = Tail(@),
                        ![s].sent = Append(@, Head(sb[s].events))]
    /\ UNCHANGED <<store, subscribers, mu, wr, resp, nSets, completed, lastCommitted, lastCompleted>>

\* a loop that logs the error of stream.Send and goes on
SendReturnIgnoreError(s, ok) ==
    /\ sb[s].pc = "sending"
    /\ sb' = [sb EXCEPT ![s].pc = "loop", ![s].err = IF ok THEN @ ELSE SendError]
    /\ UNCHANGED <<store, subscribers, mu, wr, resp, nSets, completed, lastCommitted, lastCompleted>>

\* stream.Send returns nil, or an error that Subscribe returns (lines 134-137):
\* the deferred cleanup calls removeSubscriber, which calls s.mu.Lock()
SendReturn(s, ok) ==
    /\ sb[s].pc = "sending"
    /\ IF ok
       THEN /\ sb' = [sb EXCEPT ![s].pc = "loop"]
            /\ UNCHANGED mu
       ELSE /\ mu.w = 0
            /\ mu' = [mu EXCEPT !.w = s]
            /\ sb' = [sb EXCEPT ![s].pc = "removing", ![s].err = SendError]
    /\ UNCHANGED <<store, subscribers, wr, resp, nSets, completed, lastCommitted, lastCompleted>>

\* a cleanup that closes the channel before it calls removeSubscriber
LoopDoneCloseFirst(s) ==
    /\ sb[s].pc = "loop"
    /\ sb[s].ctxDone
    /\ mu.w = 0
    /\ mu' = [mu EXCEPT !.w = s]
    /\ sb' = [sb EXCEPT ![s].pc = "removing", ![s].err = OK, ![s].closed = TRUE]
    /\ UNCHANGED <<store, subscribers, wr, resp, nSets, completed, lastCommitted, lastCompleted>>

\* a select with a default branch that returns when the channel is empty
LoopDoneOnIdle(s) ==
    /\ sb[s].pc = "loop"
    /\ sb[s].ctxDone \/ sb[s].events = <<>>
    /\ mu.w = 0
    /\ mu' = [mu EXCEPT !.w = s]
    /\ sb' = [sb EXCEPT ![s].pc = "removing", ![s].err = OK]
    /\ UNCHANGED <<store, subscribers, wr, resp, nSets, completed, lastCommitted, lastCompleted>>

\* a loop that looks at the context only when the channel is empty
LoopDoneWhenDrained(s) ==
    /\ sb[s].pc = "loop"
    /\ sb[s].ctxDone
    /\ sb[s].events = <<>>
    /\ mu.w = 0
    /\ mu' = [mu EXCEPT !.w = s]
    /\ sb' = [sb EXCEPT ![s].pc = "removing", ![s].err = OK]
    /\ UNCHANGED <<store, subscribers, wr, resp, nSets, completed, lastCommitted, lastCompleted>>

\* a return on cancellation that runs no cleanup (the cleanup not deferred)
LoopDoneNoCleanup(s) ==
    /\ sb[s].pc = "loop"
    /\ sb[s].ctxDone
    /\ sb' = [sb EXCEPT ![s] = ReturnedSub]
    /\ resp' = SubscribeReturn(OK)
    /\ UNCHANGED <<store, subscribers, mu, wr, nSets, completed, lastCommitted, lastCompleted>>

\* select case <-stream.Context().Done(): return nil (lines 139-141), and the
\* deferred cleanup calls removeSubscriber, which calls s.mu.Lock()
LoopDone(s) ==
    /\ sb[s].pc = "loop"
    /\ sb[s].ctxDone
    /\ mu.w = 0
    /\ mu' = [mu EXCEPT !.w = s]
    /\ sb' = [sb EXCEPT ![s].pc = "removing", ![s].err = OK]
    /\ UNCHANGED <<store, subscribers, wr, resp, nSets, completed, lastCommitted, lastCompleted>>

\* the client cancels the stream, or the transport tears it down; the context
\* is read by the select of the loop only
CtxCancel(s) ==
    /\ sb[s].pc \in {"loop", "sending"}
    /\ ~sb[s].ctxDone
    /\ sb' = [sb EXCEPT ![s].ctxDone = TRUE]
    /\ UNCHANGED <<store, subscribers, mu, wr, resp, nSets, completed, lastCommitted, lastCompleted>>

\* a removeSubscriber that does not wait for the fan-outs to leave (the
\* registry written under the read lock)
RemoveNoWait(s) ==
    /\ sb[s].pc = "removing"
    /\ mu.w = s
    /\ subscribers' = RemoveSubscriber(subscribers, sb[s].pattern, s)
    /\ mu' = [mu EXCEPT !.w = 0]
    /\ sb' = [sb EXCEPT ![s].pc = "closing"]
    /\ UNCHANGED <<store, wr, resp, nSets, completed, lastCommitted, lastCompleted>>

\* the deferred removeSubscriber (lines 171-187), entered once the readers have left
Remove(s) ==
    /\ sb[s].pc = "removing"
    /\ mu.w = s
    /\ mu.readers = {}
    /\ subscribers' = RemoveSubscriber(subscribers, sb[s].pattern, s)
    /\ mu' = [mu EXCEPT !.w = 0]
    /\ sb' = [sb EXCEPT ![s].pc = "closing"]
    /\ UNCHANGED <<store, wr, resp, nSets, completed, lastCommitted, lastCompleted>>

\* a cleanup that hands what the channel still holds to the stream before
\* it closes the channel
CloseAfterDrain(s) ==
    /\ sb[s].pc = "closing"
    /\ sb' = [sb EXCEPT ![s] = [ReturnedSub EXCEPT !.sent = sb[s].sent \o sb[s].events]]
    /\ resp' = SubscribeReturn(sb[s].err)
    /\ UNCHANGED <<store, subscribers, mu, wr, nSets, completed, lastCommitted, lastCompleted>>

\* close(sub.events) at line 126, then Subscribe returns its error; the
\* subscriber and what its channel still buffers become garbage
Close(s) ==
    /\ sb[s].pc = "closing"
    /\ sb' = [sb EXCEPT ![s] = ReturnedSub]
    /\ resp' = SubscribeReturn(sb[s].err)
    /\ UNCHANGED <<store, subscribers, mu, wr, nSets, completed, lastCommitted, lastCompleted>>

(***************************************************************************)
(* The system.  The specifications run the same handlers against           *)
(* different clients.  Spec: every writer and every subscriber, one key    *)
(* under one pattern, streams whose sends succeed.  SpecStore: every       *)
(* writer writing both values to user:123 or to the empty key, readers of  *)
(* every key, the empty pattern, one subscriber.  SpecMatch: one writer,   *)
(* every subscriber, the two keys and the two overlapping patterns.        *)
(* SpecKeys: every writer, each call on its own key.  In these four the    *)
(* clients call Set as many times as there are writers.  SpecQueue: every  *)
(* writer and one subscriber, with one Set call more than a channel holds. *)
(* SpecOne: one writer and every subscriber, with as many Set calls.       *)
(* SpecLive: the clients of SpecOne under fair scheduling.  SpecSet: the   *)
(* same clients with the writer alone scheduled fairly.                    *)
(***************************************************************************)
\* the clients have called Set fewer times than there are writers
OneCallEach == nSets < NumWriters

Next ==
    \/ \E w \in Writers : OneCallEach /\ Set(w, User123, "v")
    \/ \E w \in Writers : NotifyRLock(w)
    \/ \E w \in Writers : NotifyEnqueue(w)
    \/ \E w \in Writers : NotifyRUnlock(w)
    \/ \E w \in Writers : SetReturn(w)
    \/ \E s \in Subs : Subscribe(s, UserColon)
    \/ \E s \in Subs : Register(s)
    \/ \E s \in Subs : LoopReceive(s)
    \/ \E s \in Subs : SendReturn(s, TRUE)
    \/ \E s \in Subs : LoopDone(s)
    \/ \E s \in Subs : CtxCancel(s)
    \/ \E s \in Subs : Remove(s)
    \/ \E s \in Subs : Close(s)

Spec == Init /\ [][Next]_vars

NextStore ==
    \/ \E k \in Keys : Get(k)
    \/ \E w \in Writers, k \in {EmptyStr, User123}, v \in Values :
          OneCallEach /\ Set(w, k, v)
    \/ \E w \in Writers : NotifyRLock(w)
    \/ \E w \in Writers : NotifyEnqueue(w)
    \/ \E w \in Writers : NotifyRUnlock(w)
    \/ \E w \in Writers : SetReturn(w)
    \/ \E p \in {EmptyStr, UserColon} : Subscribe(1, p)
    \/ Register(1)
    \/ LoopReceive(1)
    \/ \E ok \in BOOLEAN : SendReturn(1, ok)
    \/ LoopDone(1)
    \/ CtxCancel(1)
    \/ Remove(1)
    \/ Close(1)

SpecStore == Init /\ [][NextStore]_vars

NextMatch ==
    \/ \E k \in {User123, User999} : OneCallEach /\ Set(1, k, "v")
    \/ NotifyRLock(1)
    \/ NotifyEnqueue(1)
    \/ NotifyRUnlock(1)
    \/ SetReturn(1)
    \/ \E s \in Subs, p \in {UserColon, User1} : Subscribe(s, p)
    \/ \E s \in Subs : Register(s)
    \/ \E s \in Subs : LoopReceive(s)
    \/ \E s \in Subs, ok \in BOOLEAN : SendReturn(s, ok)
    \/ \E s \in Subs : LoopDone(s)
    \/ \E s \in Subs : CtxCancel(s)
    \/ \E s \in Subs : Remove(s)
    \/ \E s \in Subs : Close(s)

SpecMatch == Init /\ [][NextMatch]_vars

\* Every writer, each call on a key that no call has written yet (as many
\* keys as there are calls), readers of these keys, and one subscriber that
\* stays.
DistinctKeys == {UserColon \o [i \in 1..n |-> "1"] : n \in 1..NumWriters}

NextKeys ==
    \/ \E k \in DistinctKeys : Get(k)
    \/ \E w \in Writers, k \in DistinctKeys, v \in Values :
          OneCallEach /\ k \notin DOMAIN store /\ Set(w, k, v)
    \/ \E w \in Writers : NotifyRLock(w)
    \/ \E w \in Writers : NotifyEnqueue(w)
    \/ \E w \in Writers : NotifyRUnlock(w)
    \/ \E w \in Writers : SetReturn(w)
    \/ Subscribe(1, UserColon)
    \/ Register(1)
    \/ LoopReceive(1)
    \/ SendReturn(1, TRUE)

SpecKeys == Init /\ [][NextKeys]_vars

\* Every writer and one subscriber on one key under one pattern, the sends
\* of its stream succeeding: the writers call Set once more than the channel
\* holds, at once or in turn.
NextQueue ==
    \/ \E w \in Writers : Set(w, User123, "v")
    \/ \E w \in Writers : NotifyRLock(w)
    \/ \E w \in Writers : NotifyEnqueue(w)
    \/ \E w \in Writers : NotifyRUnlock(w)
    \/ \E w \in Writers : SetReturn(w)
    \/ Subscribe(1, UserColon)
    \/ Register(1)
    \/ LoopReceive(1)
    \/ SendReturn(1, TRUE)
    \/ LoopDone(1)
    \/ CtxCancel(1)
    \/ Remove(1)
    \/ Close(1)

SpecQueue == Init /\ [][NextQueue]_vars

\* One writer and every subscriber on one key under one pattern, with the
\* scheduling the runtime gives.  A goroutine that can run does run: the
\* fan-out is a loop without blocking operations, the critical sections of
\* the write lock are entered once the readers have left (a waiting Lock
\* keeps later RLock calls out), and stream.Send returns once the context of
\* its stream is done.  The select of the loop picks among its ready cases
\* at random, so the case of the cancelled context, ready at every iteration
\* whose turn finds the write lock free, is taken at one of them.  Clients
\* are free: nothing obliges a Set, a Subscribe or a cancellation to happen.
NextLive ==
    \/ Set(1, User123, "v")
    \/ NotifyRLock(1)
    \/ NotifyEnqueue(1)
    \/ NotifyRUnlock(1)
    \/ SetReturn(1)
    \/ \E s \in Subs : Subscribe(s, UserColon)
    \/ \E s \in Subs : Register(s)
    \/ \E s \in Subs : LoopReceive(s)
    \/ \E s \in Subs, ok \in BOOLEAN : SendReturn(s, ok)
    \/ \E s \in Subs : LoopDone(s)
    \/ \E s \in Subs : CtxCancel(s)
    \/ \E s \in Subs : Remove(s)
    \/ \E s \in Subs : Close(s)

Fairness ==
    /\ WF_vars(NotifyEnqueue(1))
    /\ WF_vars(NotifyRUnlock(1))
    /\ WF_vars(SetReturn(1))
    /\ \A s \in Subs :
          /\ WF_vars(Register(s))
          /\ WF_vars(sb[s].ctxDone /\ \E ok \in BOOLEAN : SendReturn(s, ok))
          /\ SF_vars(LoopDone(s))
          /\ WF_vars(Remove(s))
          /\ WF_vars(Close(s))

\* the clients of NextLive under no assumption on the scheduling
SpecOne == Init /\ [][NextLive]_vars

SpecLive == Init /\ [][NextLive]_vars /\ Fairness

\* The same clients with the scheduling of the writer only: the fan-out
\* runs, a reader waiting at RLock gets in when the write lock is released
\* (the release lets the waiting readers in before the next writer), and
\* the critical sections of the write lock are entered once the readers
\* have left.  The delivery loops are free: nothing obliges a loop to
\* receive, a stream.Send to return or a cancellation to be seen.
FairnessSet ==
    /\ \A w \in Writers :
          /\ SF_vars(NotifyRLock(w))
          /\ WF_vars(NotifyEnqueue(w))
          /\ WF_vars(NotifyRUnlock(w))
          /\ WF_vars(SetReturn(w))
    /\ \A s \in Subs :
          /\ WF_vars(Register(s))
          /\ WF_vars(Remove(s))

SpecSet == Init /\ [][NextLive]_vars /\ FairnessSet

(***************************************************************************)
(* Properties.                                                             *)
(***************************************************************************)
NonEmptyKeys == Keys \ {EmptyStr}

Found(key, value) == [op |-> "Get", key |-> key, value |-> value, found |-> TRUE, code |-> OK]
Miss(key) == [op |-> "Get", key |-> key, value |-> "", found |-> FALSE, code |-> OK]

\* C1 as stated: once a Set(k, v) has returned, every Get(k) returns (v, true),
\* v being the value of the Set(k, .) that returned last, until another
\* Set(k, v2) returns.
C1_GetReturnsLastCompletedSet ==
    [][\A k \in NonEmptyKeys :
          (Get(k) /\ k \in DOMAIN lastCompleted) => resp' = Found(k, lastCompleted[k])]_vars

\* C1 amended: Get(k) returns (v, true) for the value v of the Set(k, .) whose
\* write was committed to the store last, whether or not that Set has
\* returned yet; a Set that has returned has committed, so no completed write
\* is lost and the last committed write wins.
C1_GetReturnsLastCommittedSet ==
    /\ [](DOMAIN lastCompleted \subseteq DOMAIN lastCommitted)
    /\ [][\A k \in NonEmptyKeys :
             (Get(k) /\ k \in DOMAIN lastCommitted) => resp' = Found(k, lastCommitted[k])]_vars

\* a Get of user:123 has returned the value committed last, "Alice", while the
\* Set that returned last for that key wrote "v"
C1_Witness ==
    /\ resp = Found(User123, "Alice")
    /\ User123 \in DOMAIN lastCompleted
    /\ lastCompleted[User123] = "v"
    /\ lastCommitted[User123] = "Alice"

\* C2 as stated: Get(k) of a key that no completed Set has written returns
\* found=false, an empty value and no error.
C2_MissUnlessCompletedSet ==
    [][\A k \in NonEmptyKeys :
          (Get(k) /\ k \notin DOMAIN lastCompleted) => resp' = Miss(k)]_vars

\* C2 amended: Get(k) of a key that no Set has committed to the store,
\* completed or still in flight, returns found=false, an empty value and no
\* error.
C2_MissUnlessCommittedSet ==
    [][\A k \in NonEmptyKeys :
          (Get(k) /\ k \notin DOMAIN lastCommitted) => resp' = Miss(k)]_vars

\* a Get of user:999 has missed while user:123 is written and a subscription
\* is registered
C2_Witness ==
    /\ resp = Miss(User999)
    /\ User999 \notin DOMAIN lastCommitted
    /\ User123 \in DOMAIN store
    /\ subscribers # <<>>

\* C3: a Set with an empty key, a Get with an empty key and a Subscribe with
\* an empty pattern return InvalidArgument and change nothing but the
\* response: the store, the registry, the lock, every subscriber with its
\* channel and every fan-out in progress stay as they are.
C3_Rejected(call) ==
    call => /\ resp'.code = InvalidArgument
            /\ UNCHANGED <<store, subscribers, mu, wr, sb, nSets, completed,
                           lastCommitted, lastCompleted>>

C3_EmptyArgumentRejected ==
    [][/\ \A w \in Writers, v \in Values : C3_Rejected(Set(w, EmptyStr, v))
       /\ C3_Rejected(Get(EmptyStr))
       /\ \A s \in Subs : C3_Rejected(Subscribe(s, EmptyStr))]_vars

\* a Set has been rejected while the store holds a key, a subscription is
\* registered and its channel holds an event
C3_Witness ==
    /\ resp = SetError
    /\ store # <<>>
    /\ subscribers # <<>>
    /\ \E s \in Subs : sb[s].events # <<>>

\* key starts with the character sequence p
StartsWith(key, p) ==
    /\ Len(p) <= Len(key)
    /\ \A i \in 1..Len(p) : key[i] = p[i]

\* the fan-out of writer w has visited every subscriber and still holds the
\* read lock
FanoutDone(w) == wr[w].pc = "fanout" /\ wr[w].todo = <<>>

\* the positions of the event with this id among the enqueue attempts on s
Attempts(s, id) == {i \in DOMAIN sb[s].tried : sb[s].tried[i].id = id}

\* the event with this id went into the channel of s
Enqueued(s, id) == Attempts(s, id) # {} /\ id \notin sb[s].dropped

\* C4: when the fan-out of a Set(k, v) is done, every subscriber that was
\* registered when it started and whose channel was not full at its turn has
\* had exactly one event enqueued by it, a SET event with key k and value v,
\* if k starts with its pattern, and none if k does not.  (One writer: the
\* store holds what this Set wrote.)
C4_PrefixDecidesDelivery ==
    \A w \in Writers : FanoutDone(w) =>
        LET e == wr[w].event IN
        \A s \in wr[w].snap :
            e.id \notin sb[s].dropped =>
                IF StartsWith(e.key, sb[s].pattern)
                THEN /\ Cardinality(Attempts(s, e.id)) = 1
                     /\ \A i \in Attempts(s, e.id) :
                          /\ sb[s].tried[i].changeType = "SET"
                          /\ sb[s].tried[i].key = e.key
                          /\ sb[s].tried[i].value = store[e.key]
                ELSE Attempts(s, e.id) = {}

\* the fan-out of Set(user:999) is done with both subscribers registered: the
\* one under user: has the event, the one under user:1 has not
C4_Witness ==
    \E w \in Writers, s, t \in Subs :
        /\ FanoutDone(w)
        /\ wr[w].event.key = User999
        /\ wr[w].snap = {s, t}
        /\ sb[s].pattern = UserColon /\ Enqueued(s, wr[w].event.id)
        /\ sb[t].pattern = User1 /\ Attempts(t, wr[w].event.id) = {}

\* a finished fan-out of a Set of key over subscribers s under user: and t
\* under user:1, neither channel full at its turn
C5_Case(w, s, t, key) ==
    /\ FanoutDone(w)
    /\ wr[w].event.key = key
    /\ {s, t} \subseteq wr[w].snap
    /\ sb[s].pattern = UserColon
    /\ sb[t].pattern = User1
    /\ wr[w].event.id \notin sb[s].dropped \cup sb[t].dropped

\* C5 as stated: Set(user:123) enqueues an event to both subscribers, and
\* Set(user:999) only to the one under user:1.
C5_User999OnlyToUser1 ==
    \A w \in Writers, s, t \in Subs :
        /\ C5_Case(w, s, t, User123) =>
              Enqueued(s, wr[w].event.id) /\ Enqueued(t, wr[w].event.id)
        /\ C5_Case(w, s, t, User999) =>
              ~Enqueued(s, wr[w].event.id) /\ Enqueued(t, wr[w].event.id)

\* C5 amended: Set(user:123) enqueues an event to both subscribers, and
\* Set(user:999) only to the one under user: (user:999 does not start with
\* user:1).
C5_User999OnlyToUserColon ==
    \A w \in Writers, s, t \in Subs :
        /\ C5_Case(w, s, t, User123) =>
              Enqueued(s, wr[w].event.id) /\ Enqueued(t, wr[w].event.id)
        /\ C5_Case(w, s, t, User999) =>
              Enqueued(s, wr[w].event.id) /\ ~Enqueued(t, wr[w].event.id)

\* both keys have been set with the two subscribers registered: the fan-out
\* of Set(user:999) is done and the event of an earlier Set(user:123) went to
\* both
C5_Witness ==
    \E w \in Writers, s, t \in Subs :
        /\ C5_Case(w, s, t, User999)
        /\ \E i \in DOMAIN sb[t].tried :
              /\ sb[t].tried[i].key = User123
              /\ Enqueued(s, sb[t].tried[i].id)
              /\ Enqueued(t, sb[t].tried[i].id)

\* the Set call that built the event with this id has returned
Returned(id) == \A w \in Writers : wr[w].event.id # id

\* C6: while the delivery loop of a subscriber has received nothing, once
\* more than QueueCap events have been published to it its channel holds the
\* first QueueCap of them in publish order, every later one was dropped, and
\* every Set that published one and has returned has returned success.
C6_DropNewest ==
    \A s \in Subs :
        (sb[s].sent = <<>> /\ Len(sb[s].tried) > QueueCap) =>
            /\ sb[s].events = SubSeq(sb[s].tried, 1, QueueCap)
            /\ sb[s].dropped =
                 {sb[s].tried[i].id : i \in (QueueCap + 1)..Len(sb[s].tried)}
            /\ \A i \in DOMAIN sb[s].tried :
                 Returned(sb[s].tried[i].id) => sb[s].tried[i].id \in completed

\* QueueCap + 1 Set calls have returned, their events published to one
\* subscriber that has received nothing
C6_Witness ==
    \E s \in Subs :
        /\ sb[s].sent = <<>>
        /\ Len(sb[s].tried) = QueueCap + 1
        /\ Cardinality(completed) = QueueCap + 1
        /\ \A w \in Writers : wr[w].pc = "idle"

\* C7: the events pending in a subscriber's channel never exceed its capacity.
C7_QueueBounded == \A s \in Subs : Len(sb[s].events) <= QueueCap

\* a channel is at capacity after an event was dropped on it, with the
\* stream cancelled and a fan-out running
C7_Witness ==
    \E s \in Subs :
        /\ Len(sb[s].events) = QueueCap
        /\ sb[s].dropped # {}
        /\ sb[s].ctxDone
        /\ \E w \in Writers : wr[w].pc = "fanout"

\* the step enqueues an event into the channel of s
EnqueueInto(s) == Len(sb'[s].events) > Len(sb[s].events)

\* the step attempts an enqueue into the channel of s
AttemptOn(s) == Len(sb'[s].tried) > Len(sb[s].tried)

\* C8 as stated: from the moment the stream context of a subscriber is done,
\* no Set enqueues an event into its channel.
C8_NoEnqueueAfterCancel ==
    [][\A s \in Subs : sb[s].ctxDone => ~EnqueueInto(s)]_vars

\* removeSubscriber has run for s
Removed(s) == sb[s].pc \in {"closing", "returned"}

\* C8 amended: once the Subscribe call of a subscriber has left its loop and
\* removeSubscriber has run for it, no fan-out holds it and no Set attempts
\* an enqueue into its channel; between the cancellation and that removal a
\* Set may still enqueue.
C8_NoEnqueueAfterRemoval ==
    /\ [](\A s \in Subs : Removed(s) =>
            /\ s \notin Registered(subscribers)
            /\ \A w \in Writers : s \notin Range(wr[w].todo))
    /\ [][\A s \in Subs : Removed(s) => ~EnqueueInto(s) /\ ~AttemptOn(s)]_vars

\* a cancelled subscriber has been removed and a fan-out that started after
\* the removal is running over the other subscriber
C8_Witness ==
    \E s \in Subs, w \in Writers :
        /\ sb[s].pc = "closing"
        /\ sb[s].ctxDone
        /\ sb[s].err = OK
        /\ wr[w].pc = "fanout"
        /\ wr[w].snap # {}
        /\ s \notin wr[w].snap

\* list without the element x, the other elements in their order
Without(list, x) ==
    LET keep(y) == y # x IN SelectSeq(list, keep)

\* C9: removeSubscriber removes the subscriber it is called for and nothing
\* else: the list of its pattern shrinks by one and keeps the other
\* subscribers in their order, the lists of the other patterns stay as they
\* are, and the entry of its pattern is deleted exactly when the list was of
\* length one.
C9_RemoveExactlyOne ==
    [][\A s \in Subs : Remove(s) =>
          LET p == sb[s].pattern
              old == Lookup(subscribers, p)
              new == Lookup(subscribers', p)
          IN  /\ Len(new) = Len(old) - 1
              /\ new = Without(old, s)
              /\ \A q \in DOMAIN subscribers \cup DOMAIN subscribers' :
                   q # p => /\ q \in DOMAIN subscribers
                            /\ q \in DOMAIN subscribers'
                            /\ subscribers'[q] = subscribers[q]
              /\ p \in DOMAIN subscribers' <=> Len(old) > 1]_vars

\* the first of two subscribers under one pattern has been removed and the
\* second is still registered under it
C9_Witness ==
    /\ sb[1].pc = "closing"
    /\ sb[2].pattern = sb[1].pattern
    /\ subscribers = (sb[1].pattern :> <<2>>)

\* C10: the registry has no pattern with an empty list of subscribers.
C10_NoEmptyEntry == \A p \in DOMAIN subscribers : subscribers[p] # <<>>

\* the last subscriber of a pattern has been removed after a send failure:
\* its pattern has no entry, the other pattern has
C10_Witness ==
    \E s \in Subs :
        /\ sb[s].pc = "closing"
        /\ sb[s].err = SendError
        /\ sb[s].pattern \notin DOMAIN subscribers
        /\ subscribers # <<>>

\* C11: removeSubscriber for a subscriber that is not in the list of the
\* pattern, because it was removed already or because the pattern has no
\* entry, leaves the registry as it is: in every reachable registry, and in
\* particular right after the removal of that subscriber, so that a second
\* removal gives what the first one gave.
C11_RemoveIdempotent ==
    /\ [](\A s \in Subs, p \in Patterns \ {EmptyStr} :
            s \notin Range(Lookup(subscribers, p)) =>
                RemoveSubscriber(subscribers, p, s) = subscribers)
    /\ [][\A s \in Subs : Remove(s) =>
             RemoveSubscriber(subscribers', sb[s].pattern, s) = subscribers']_vars

\* the second of two subscribers under one pattern has been removed after its
\* stream was cancelled; the first is still in the list of that pattern and
\* the other pattern has no entry
C11_Witness ==
    /\ sb[2].pc = "closing"
    /\ sb[2].err = OK
    /\ subscribers = (sb[2].pattern :> <<1>>)
    /\ sb[1].pattern = sb[2].pattern

\* C12: a full channel is absorbed where it is met.  A step of the fan-out on
\* a subscriber whose channel is at capacity leaves that channel as it is and
\* records the drop; on one with room it appends the event; either way the
\* value stays committed, no other subscriber is touched and the fan-out goes
\* on to the next subscriber.  When the fan-out is done every subscriber that
\* was registered when it started has had its one attempt; the fan-out then
\* releases the read lock and the Set, which nothing can hold back any more,
\* returns success.
C12_FullQueueAbsorbed ==
    /\ [][\A w \in Writers : NotifyEnqueue(w) =>
             LET s == Head(wr[w].todo)
                 e == wr[w].event
             IN  /\ e.key \in DOMAIN store /\ store' = store
                 /\ IF Len(sb[s].events) >= QueueCap
                    THEN /\ sb'[s].events = sb[s].events
                         /\ e.id \in sb'[s].dropped
                    ELSE /\ sb'[s].events = Append(sb[s].events, e)
                         /\ e.id \notin sb'[s].dropped
                 /\ \A t \in Subs \ {s} : sb'[t] = sb[t]
                 /\ wr'[w].pc = "fanout"
                 /\ wr'[w].todo = Tail(wr[w].todo)]_vars
    /\ [](\A w \in Writers : FanoutDone(w) =>
            \A s \in wr[w].snap :
                HasPrefix(wr[w].event.key, sb[s].pattern) =>
                    Cardinality(Attempts(s, wr[w].event.id)) = 1)
    /\ [][\A w \in Writers : NotifyRUnlock(w) =>
             /\ wr'[w].pc = "returning"
             /\ store' = store /\ sb' = sb]_vars
    /\ [](\A w \in Writers : wr[w].pc = "returning" => ENABLED SetReturn(w))
    /\ [][\A w \in Writers : SetReturn(w) =>
             /\ resp' = SetSuccess
             /\ wr[w].event.id \in completed']_vars

\* a Set has returned success whose event was dropped on the full channel of
\* one subscriber and enqueued into the channel of the other
C12_Witness ==
    \E s, t \in Subs : \E id \in completed :
        /\ Returned(id)
        /\ resp = SetSuccess
        /\ id \in sb[s].dropped
        /\ Enqueued(t, id)

\* the subscribers registered whose pattern is a prefix of key
Matching(key) == {t \in Registered(subscribers) : HasPrefix(key, sb[t].pattern)}

\* C13: a failure of stream.Send stays with its subscriber.  The failing
\* step ends the loop of that subscriber and touches nothing else; the loop
\* never runs again; its removal takes that subscriber alone out of the
\* registry and leaves every other subscriber registered where it was; the
\* error is returned by that Subscribe call only; every fan-out that starts
\* visits every registered subscriber with a matching pattern, and every Set
\* returns success.
C13_SendFailureIsolated ==
    /\ [][\A s \in Subs : SendReturn(s, FALSE) =>
             /\ sb'[s].pc = "removing"
             /\ sb'[s].err = SendError
             /\ \A t \in Subs \ {s} : sb'[t] = sb[t]
             /\ UNCHANGED <<store, subscribers, wr, resp, completed>>]_vars
    /\ [](\A s \in Subs : sb[s].err = SendError => sb[s].pc \in {"removing", "closing"})
    /\ [][\A s \in Subs : (Remove(s) /\ sb[s].err = SendError) =>
             /\ s \in Registered(subscribers)
             /\ Registered(subscribers') = Registered(subscribers) \ {s}
             /\ \A t \in Registered(subscribers') :
                    /\ t \in Range(Lookup(subscribers', sb[t].pattern))
                    /\ sb'[t] = sb[t]
             /\ UNCHANGED <<store, wr, resp, completed>>]_vars
    /\ [][\A s \in Subs : (Close(s) /\ sb[s].err = SendError) =>
             /\ s \notin Registered(subscribers)
             /\ resp' = SubscribeReturn(SendError)
             /\ UNCHANGED <<store, subscribers, wr, completed>>]_vars
    /\ [][\A w \in Writers : NotifyRLock(w) =>
             Range(wr'[w].todo) = Matching(wr[w].event.key)]_vars
    /\ [][\A w \in Writers : SetReturn(w) => resp' = SetSuccess]_vars

\* a subscriber has been removed after a failed send, and a Set published
\* after that removal has returned with its event in the channel of the
\* other subscriber of the same pattern, which has delivered an earlier
\* event and is still registered
C13_Witness ==
    \E s, t \in Subs :
        /\ sb[s].pc = "closing"
        /\ sb[s].err = SendError
        /\ sb[t].pattern = sb[s].pattern
        /\ t \in Registered(subscribers)
        /\ sb[t].sent # <<>>
        /\ \E i \in DOMAIN sb[t].tried :
              /\ Attempts(s, sb[t].tried[i].id) = {}
              /\ sb[t].tried[i].id \in completed
              /\ sb[t].events = <<sb[t].tried[i]>>

\* the events that went into the channel of s, in the order of their enqueue
EnqueuedSeq(s) ==
    LET accepted(e) == e.id \notin sb[s].dropped IN SelectSeq(sb[s].tried, accepted)

\* C14: for every subscriber, the events handed to its stream followed by
\* the events still in its channel are the events enqueued into its
\* channel, in enqueue order: what was delivered is a prefix of what was
\* enqueued, no event was delivered twice and no two events were delivered
\* in the reverse of their enqueue order.
C14_PerSubscriberFifo ==
    \A s \in Subs :
        /\ sb[s].sent \o sb[s].events = EnqueuedSeq(s)
        /\ \A i, j \in DOMAIN sb[s].sent :
              i < j => /\ sb[s].sent[i].id # sb[s].sent[j].id
                       /\ \E m, n \in DOMAIN sb[s].tried :
                             /\ m < n
                             /\ sb[s].tried[m] = sb[s].sent[i]
                             /\ sb[s].tried[n] = sb[s].sent[j]

\* the channel of a subscriber was full, of two events or more, when an
\* event was dropped on it, so that all the events it ever accepted waited
\* in it together; the subscriber has since handed every one of them to its
\* stream, which is still open
C14_Witness ==
    \E s \in Subs :
        /\ QueueCap >= 2
        /\ Len(sb[s].tried) = QueueCap + 1
        /\ Cardinality(sb[s].dropped) = 1
        /\ Len(sb[s].sent) = QueueCap
        /\ sb[s].pc = "loop"
        /\ ~sb[s].ctxDone

\* C15 as stated: event ids count the commits to the store, so the write of
\* the event with the smaller id was committed first.  Of two events for one
\* key with different values that a subscriber has received, the one committed first was received
\* first; and once every Set has returned and the subscriber has received
\* the event of every one of them, the last event it received for a key
\* carries the value the store holds for that key.
C15_EventOrderIsCommitOrder ==
    \A s \in Subs :
        /\ \A i, j \in DOMAIN sb[s].sent :
              (/\ i < j
               /\ sb[s].sent[i].key = sb[s].sent[j].key
               /\ sb[s].sent[i].value # sb[s].sent[j].value) =>
                  sb[s].sent[i].id < sb[s].sent[j].id
        /\ ((\A w \in Writers : wr[w].pc = "idle")
               /\ \A id \in 1..nSets : \E i \in DOMAIN sb[s].sent : sb[s].sent[i].id = id) =>
              \A i \in DOMAIN sb[s].sent :
                  (\A j \in DOMAIN sb[s].sent :
                      (j > i) => sb[s].sent[j].key # sb[s].sent[i].key) =>
                  sb[s].sent[i].value = store[sb[s].sent[i].key]

\* the events that the channel of s holds or has held
Seen(s) == Range(sb[s].tried) \cup Range(sb[s].events) \cup Range(sb[s].sent)

\* C16: no replay.  The channel of a subscriber is empty when it is
\* registered; no event that its channel holds, has held or was offered
\* belongs to a Set whose fan-out had ended (the read lock released, the Set
\* returned or about to) when it was registered; and an enqueue is attempted
\* on a subscriber only by a fan-out that found it registered when it took
\* the read lock, while it is still registered.
C16_NoReplay ==
    /\ [](\A s \in Subs : \A e \in Seen(s) : e.id \notin sb[s].before)
    /\ [][\A s \in Subs : Register(s) =>
             /\ sb'[s].events = <<>>
             /\ Seen(s) = {}
             /\ sb'[s].before = FannedOut]_vars
    /\ [][\A w \in Writers : NotifyEnqueue(w) =>
             /\ Head(wr[w].todo) \in wr[w].snap
             /\ Head(wr[w].todo) \in Registered(subscribers)
             /\ wr[w].event.id \notin FannedOut]_vars

\* a subscriber registered after the fan-out of a Set had ended has received
\* the event of a later Set, and the other subscriber has received both
C16_Witness ==
    \E s, t \in Subs :
        /\ sb[s].before # {}
        /\ sb[s].sent # <<>>
        /\ Len(sb[t].sent) > Len(sb[s].sent)
        /\ \A e \in Range(sb[s].sent) : e \in Range(sb[t].sent)

\* the number of places of the registry reg that hold the subscriber s
CountIn(reg, s) ==
    Cardinality({pi \in UNION {{<<p, i>> : i \in DOMAIN reg[p]} : p \in DOMAIN reg} :
                    reg[pi[1]][pi[2]] = s})

\* C17: every accepted subscription is deregistered once, whichever way its
\* stream ends.  A subscriber is in the registry once from its registration
\* until its removal and never after; a step that leaves the loop, on
\* cancellation or on a failed send, goes to the removal; the removal takes
\* it out and is the only step that does; close runs once, on an open
\* channel, after the removal; and once Subscribe has returned the
\* subscriber is out of the registry, its channel is closed and nothing
\* touches it again.
C17_DeregisteredOnce ==
    /\ [](\A s \in Subs :
            /\ CountIn(subscribers, s) =
                 (IF sb[s].pc \in {"loop", "sending", "removing"} THEN 1 ELSE 0)
            /\ sb[s].closed <=> sb[s].pc = "returned")
    /\ [][\A s \in Subs :
             /\ (sb[s].pc \in {"loop", "sending"} /\ sb'[s].pc \notin {"loop", "sending"}) =>
                    /\ sb'[s].pc = "removing"
                    /\ sb'[s].err \in {OK, SendError}
             /\ CountIn(subscribers', s) < CountIn(subscribers, s) =>
                    /\ Remove(s)
                    /\ CountIn(subscribers, s) = 1
             /\ sb'[s].pc = "returned" =>
                    \/ sb[s].pc = "returned" /\ sb'[s] = sb[s]
                    \/ /\ Close(s)
                       /\ ~sb[s].closed
                       /\ CountIn(subscribers, s) = 0
                       /\ resp' = SubscribeReturn(sb[s].err)
             /\ sb[s].pc = "returned" => sb'[s] = sb[s]]_vars

\* one Subscribe call has returned nil after a cancellation and the other
\* has been removed after a failed send: the registry is empty
C17_Witness ==
    \E s, t \in Subs :
        /\ sb[s].pc = "returned"
        /\ sb[s].closed
        /\ resp = SubscribeReturn(OK)
        /\ sb[t].pc = "closing"
        /\ sb[t].err = SendError
        /\ subscribers = <<>>

\* C18: in every iteration of the loop of a cancelled stream that finds the
\* write lock free, the case of the cancelled context is ready, whatever the
\* channel holds; and under the scheduling of SpecLive a cancelled stream
\* leads to the removal of its subscriber from the registry, and a
\* subscriber that has left its loop leads to the return of its Subscribe
\* call.
C18_CancelLeadsToRemoval ==
    /\ [](\A s \in Subs :
            (sb[s].pc = "loop" /\ sb[s].ctxDone /\ mu.w = 0) => ENABLED LoopDone(s))
    /\ \A s \in Subs : sb[s].ctxDone ~> (Removed(s) /\ s \notin Registered(subscribers))
    /\ \A s \in Subs : (sb[s].pc = "removing") ~> (sb[s].pc = "returned")

\* the loop of a cancelled stream has returned with an event still in its
\* channel, and its removal waits for a fan-out that holds the read lock
C18_Witness ==
    \E s \in Subs :
        /\ sb[s].pc = "removing"
        /\ sb[s].ctxDone
        /\ sb[s].err = OK
        /\ sb[s].events # <<>>
        /\ mu.readers # {}

\* no Set call is in flight
AllSetsReturned == \A w \in Writers : wr[w].pc = "idle"

\* C19: with every Set call on a key of its own, every Set returns success;
\* a Get of a key whose Set has returned returns the value of that Set,
\* found; and once all Set calls have returned the store holds exactly the
\* keys that were set, as many as there were calls, each with the value its
\* call wrote.
C19_DistinctKeysAllVisible ==
    /\ [][\A w \in Writers : SetReturn(w) => resp' = SetSuccess]_vars
    /\ [][\A k \in DistinctKeys :
             (Get(k) /\ k \in DOMAIN lastCompleted) =>
                 resp' = Found(k, lastCompleted[k])]_vars
    /\ [](AllSetsReturned =>
            /\ DOMAIN store = DOMAIN lastCompleted
            /\ Cardinality(DOMAIN store) = nSets
            /\ Cardinality(completed) = nSets
            /\ \A k \in DOMAIN store : store[k] = lastCompleted[k])

\* all Set calls have returned, two of them, on different keys with
\* different values, ran concurrently (the subscriber was offered the event
\* of the later commit first), and a Get has returned the value of one
C19_Witness ==
    /\ AllSetsReturned
    /\ nSets >= 2
    /\ \E k \in DOMAIN store : resp = Found(k, "Alice")
    /\ \E k \in DOMAIN store : store[k] = "v"
    /\ \E i, j \in DOMAIN sb[1].tried :
          i < j /\ sb[1].tried[i].id > sb[1].tried[j].id

\* the Subscribe call of s was accepted and has not left its loop
Open(s) == sb[s].pc \in {"loop", "sending"}

\* C20: an accepted Subscribe call stays open.  While its stream is not
\* cancelled and no send has failed, it is registering or in its loop; in
\* its loop its subscriber is in the list of its pattern, which is not
\* empty, and its channel is open; it leaves the loop only from the select
\* with the context done, returning nil, or from a failed send, returning
\* the error; and it returns only after one of these.
C20_StreamStaysOpen ==
    /\ [](\A s \in Subs :
            /\ (sb[s].pc \notin {"idle", "returned"} /\ ~sb[s].ctxDone /\ sb[s].err = None) =>
                  sb[s].pc = "registering" \/ Open(s)
            /\ Open(s) =>
                  /\ sb[s].pattern # EmptyStr
                  /\ s \in Range(Lookup(subscribers, sb[s].pattern))
                  /\ ~sb[s].closed)
    /\ [][\A s \in Subs :
             /\ (sb[s].pc = "registering" /\ sb'[s].pc # "registering") => Open(s)'
             /\ (Open(s) /\ ~Open(s)') =>
                    \/ sb[s].pc = "loop" /\ sb[s].ctxDone /\ sb'[s].err = OK
                    \/ sb[s].pc = "sending" /\ sb'[s].err = SendError
             /\ Close(s) =>
                    \/ sb[s].err = OK /\ sb[s].ctxDone
                    \/ sb[s].err = SendError]_vars

\* a subscriber that has delivered an event is in its loop, registered, its
\* stream not cancelled, alone in the registry after the other Subscribe
\* call has returned
C20_Witness ==
    \E s, t \in Subs :
        /\ sb[s].pc = "loop"
        /\ ~sb[s].ctxDone
        /\ sb[s].sent # <<>>
        /\ sb[t].pc = "returned"
        /\ subscribers = (sb[s].pattern :> <<s>>)

\* the fan-out of writer w is between its RLock and its RUnlock
InFanout(w) == wr[w].pc = "fanout"

\* C21: one fan-out sees one registry.  No step taken while a fan-out holds
\* the read lock changes the registry, so the subscribers it found at its
\* RLock are the registered ones until it ends; it attempts an enqueue on
\* those of them whose pattern is a prefix of the key and on no other,
\* never twice on one, and when it is done on each of them once.
C21_ConsistentSnapshot ==
    /\ [][(\E w \in Writers : InFanout(w)) => subscribers' = subscribers]_vars
    /\ [](\A w \in Writers : InFanout(w) =>
            LET e == wr[w].event IN
            /\ wr[w].snap = Registered(subscribers)
            /\ Range(wr[w].todo) \subseteq Matching(e.key)
            /\ \A i, j \in DOMAIN wr[w].todo : i # j => wr[w].todo[i] # wr[w].todo[j]
            /\ \A s \in Subs :
                  Cardinality(Attempts(s, e.id)) =
                      (IF s \in Matching(e.key) /\ s \notin Range(wr[w].todo) THEN 1 ELSE 0))

\* a fan-out has attempted its enqueue on one subscriber and has the other
\* still to visit, whose stream has ended and whose removal waits for the
\* write lock
C21_Witness ==
    \E w \in Writers, s, t \in Subs :
        /\ InFanout(w)
        /\ Attempts(s, wr[w].event.id) # {}
        /\ wr[w].todo = <<t>>
        /\ sb[t].pc = "removing"
        /\ mu.w = t

\* the fan-outs that still have the subscriber s to visit
Producers(s) == {w \in Writers : InFanout(w) /\ s \in Range(wr[w].todo)}

\* C22 as stated: at any time at most one publish is inside its fan-out, and
\* at most one publish is about to enqueue into the channel of a given
\* subscriber.
C22_OneFanoutAtATime ==
    /\ Cardinality({w \in Writers : InFanout(w)}) <= 1
    /\ \A s \in Subs : Cardinality(Producers(s)) <= 1

\* C22 amended: every write of the registry excludes every other access.  A
\* step that changes the registry is the registration or the removal of the
\* holder of the write lock, taken while no fan-out holds the read lock; the
\* holders of the read lock are the fan-outs in progress, and the holder of
\* the write lock is the one Subscribe call that is registering or
\* removing.  Fan-outs share the read lock: several may be in progress and
\* enqueue into one channel.
C22_WritesExclusive ==
    /\ [][subscribers' # subscribers =>
             /\ mu.readers = {}
             /\ \A w \in Writers : ~InFanout(w)
             /\ mu.w \in Subs
             /\ Register(mu.w) \/ Remove(mu.w)]_vars
    /\ [](mu.readers = {w \in Writers : InFanout(w)})
    /\ [](\A s \in Subs : sb[s].pc \in {"registering", "removing"} <=> mu.w = s)

\* two fan-outs hold the read lock and have the same subscriber to visit,
\* while a Subscribe call waits for the write lock
C22_Witness ==
    \E s \in Subs :
        /\ Cardinality(Producers(s)) >= 2
        /\ mu.w \in Subs
        /\ mu.readers # {}

\* C23: a Set never waits for a subscriber.  A fan-out with a subscriber to
\* visit can take its step whatever that channel holds, one with none left
\* can release the read lock, and the Set can then return; a Subscribe call
\* in its loop or inside stream.Send does not hold the write lock; every Set
\* that returns returns success; and
\* under the scheduling of SpecSet, which obliges no delivery loop to do
\* anything, every Set that has stored its value leads to its return.
C23_SetNeverWaits ==
    /\ [](\A w \in Writers : InFanout(w) =>
            IF wr[w].todo # <<>> THEN ENABLED NotifyEnqueue(w) ELSE ENABLED NotifyRUnlock(w))
    /\ [](\A w \in Writers : wr[w].pc = "returning" => ENABLED SetReturn(w))
    /\ [](\A s \in Subs : Open(s) => mu.w # s)
    /\ [][\A w \in Writers : SetReturn(w) => resp' = SetSuccess]_vars
    /\ \A id \in 1..MaxSets : (nSets >= id) ~> (id \in completed)

\* no delivery loop has received anything, every subscriber is registered
\* with its channel full, and a Set whose event was dropped on every one of
\* them has returned success
C23_Witness ==
    /\ resp = SetSuccess
    /\ \A s \in Subs :
          /\ s \in Registered(subscribers)
          /\ sb[s].sent = <<>>
          /\ Len(sb[s].events) = QueueCap
    /\ \E id \in completed : \A s \in Subs : id \in sb[s].dropped

\* C24: commit precedes notification.  The key of the event of every Set in
\* flight is in the store; so is the key of every event that the channel of
\* a subscriber holds, has held or was offered; no key ever leaves the
\* store; and a Get of the key of such an event returns found.
C24_CommitBeforeNotify ==
    /\ [](\A w \in Writers : wr[w].pc # "idle" => wr[w].event.key \in DOMAIN store)
    /\ [](\A s \in Subs : \A e \in Seen(s) :
            /\ e.key \in DOMAIN store
            /\ GetResponse(store, e.key).found)
    /\ [][DOMAIN store \subseteq DOMAIN store']_vars
    /\ [][\A k \in NonEmptyKeys :
             (Get(k) /\ \E s \in Subs : \E e \in Seen(s) : e.key = k) =>
                 resp'.found /\ resp'.code = OK]_vars

\* a Get has found the key of an event that is in the channel of the
\* subscriber while the Set that published it is still in its fan-out
C24_Witness ==
    \E w \in Writers :
        /\ InFanout(w)
        /\ wr[w].event \in Range(sb[1].events)
        /\ resp = Found(wr[w].event.key, store[wr[w].event.key])

\* C25: the registration of an accepted Subscribe(pattern) appends one new
\* subscriber with an empty open channel to the list of its pattern: the
\* list grows by one, the subscribers it held keep their positions, the new
\* one was nowhere in the registry, the lists of the other patterns and the
\* store stay as they are.  The accepting step before it changes neither
\* the registry nor the store.
C25_RegisterAppendsOne ==
    /\ [][\A s \in Subs : Register(s) =>
             LET p == sb[s].pattern
                 old == Lookup(subscribers, p)
                 new == Lookup(subscribers', p)
             IN  /\ p # EmptyStr
                 /\ s \notin Registered(subscribers)
                 /\ Len(new) = Len(old) + 1
                 /\ SubSeq(new, 1, Len(old)) = old
                 /\ new[Len(new)] = s
                 /\ sb'[s].events = <<>> /\ ~sb'[s].closed
                 /\ DOMAIN subscribers' = DOMAIN subscribers \cup {p}
                 /\ \A q \in DOMAIN subscribers \ {p} : subscribers'[q] = subscribers[q]
                 /\ store' = store]_vars
    /\ [][\A s \in Subs, p \in Patterns \ {EmptyStr} : Subscribe(s, p) =>
             /\ sb'[s].pattern = p
             /\ UNCHANGED <<subscribers, store>>]_vars

\* the second subscriber has just been registered behind the first under
\* one pattern, with a key in the store and an event waiting in the channel
\* of the first
C25_Witness ==
    /\ sb[2].pc = "loop"
    /\ sb[2].tried = <<>>
    /\ subscribers = (sb[2].pattern :> <<1, 2>>)
    /\ store # <<>>
    /\ sb[1].events # <<>>

\* the step hands an event of the channel of s to stream.Send
HandsToSend(s) == Len(sb'[s].sent) > Len(sb[s].sent)

\* C26 as stated: once the stream context of a subscriber is done, no event
\* is handed to stream.Send for it.
C26_NoSendAfterCancel ==
    [][\A s \in Subs : sb[s].ctxDone => ~HandsToSend(s)]_vars

\* C26 amended: an event is handed to stream.Send only by the receive case
\* of the select, inside the loop; once the loop has returned, on the case
\* of the done context or on a failed send, no event is handed to
\* stream.Send and what the channel holds is left in it; between the
\* cancellation and the iteration that takes the case of the done context
\* the select may still take the receive case.
C26_NoSendAfterLoopReturns ==
    /\ [][\A s \in Subs : HandsToSend(s) => sb[s].pc = "loop" /\ LoopReceive(s)]_vars
    /\ [][\A s \in Subs : sb[s].pc \in {"removing", "closing", "returned"} => ~HandsToSend(s)]_vars
    /\ [][\A s \in Subs : (LoopDone(s) \/ Remove(s)) =>
             /\ sb'[s].events = sb[s].events
             /\ sb'[s].sent = sb[s].sent]_vars

\* a cancelled subscriber that had delivered an event has left its loop and
\* has been removed with an event still in its channel
C26_Witness ==
    \E s \in Subs :
        /\ sb[s].pc = "closing"
        /\ sb[s].ctxDone
        /\ sb[s].err = OK
        /\ sb[s].sent # <<>>
        /\ sb[s].events # <<>>

\* C27: no send on a closed channel.  No writer panics; every subscriber a
\* fan-out has still to visit is registered, its Subscribe call has not
\* passed its removal and its channel is open; the removal runs with the
\* write lock held and no reader inside; and the channel is closed after the
\* removal, when the subscriber is in no list of the registry and in no
\* fan-out.
C27_NoSendOnClosed ==
    /\ [](\A w \in Writers : wr[w].pc # "panic")
    /\ [](\A w \in Writers : \A s \in Range(wr[w].todo) :
            /\ InFanout(w)
            /\ ~sb[s].closed
            /\ s \in Registered(subscribers)
            /\ ~Removed(s))
    /\ [][\A s \in Subs : Remove(s) => mu.w = s /\ mu.readers = {}]_vars
    /\ [][\A s \in Subs : Close(s) =>
             /\ ~sb[s].closed
             /\ s \notin Registered(subscribers)
             /\ \A w \in Writers : s \notin Range(wr[w].todo)]_vars

\* a Subscribe call has returned and its channel is closed, and a fan-out
\* that started after its removal has the other subscriber still to visit
\* while another Set waits at RLock
C27_Witness ==
    \E s, t \in Subs, w, v \in Writers :
        /\ sb[s].pc = "returned"
        /\ sb[s].closed
        /\ InFanout(w)
        /\ wr[w].todo = <<t>>
        /\ wr[v].pc = "rlock"
=============================================================================
